---- MODULE Spec2Model ----
(***************************************************************************)
(* Loan-amortization engine (src/loan_engine.py): build_schedule, its      *)
(* three schedule generators and the effective-rate (TAEG) solver.         *)
(*                                                                         *)
(* Monetary amounts and rates are Python floats in the source.  They are   *)
(* modelled as exact rationals <<numerator, denominator>> in lowest terms  *)
(* (denominator > 0), so "equal within floating tolerance" becomes exact   *)
(* equality.  Dates are <<year, month, day>>.                              *)
(***************************************************************************)
EXTENDS Integers, Sequences, FiniteSets, TLC

\* ------------------------------------------------------------------------
\* Bounds of the model (not program constants)
\* ------------------------------------------------------------------------
MaxPeriods == 4
MaxDeferred == 2
MaxShift == 14

\* ------------------------------------------------------------------------
\* Exact rational arithmetic standing for float arithmetic
\* ------------------------------------------------------------------------
Abs(n) == IF n < 0 THEN -n ELSE n

RECURSIVE Gcd(_, _)
Gcd(a, b) == IF b = 0 THEN a ELSE Gcd(b, a % b)

Lcm(a, b) == (a \div Gcd(a, b)) * b

Norm(n, d) ==
    LET g == Gcd(Abs(n), d)
    IN  <<n \div g, d \div g>>

R(n) == <<n, 1>>
Zero == <<0, 1>>
One == <<1, 1>>

RNeg(a) == <<-a[1], a[2]>>

RAdd(a, b) ==
    LET l == Lcm(a[2], b[2])
    IN  Norm(a[1] * (l \div a[2]) + b[1] * (l \div b[2]), l)

RSub(a, b) == RAdd(a, RNeg(b))

RMul(a, b) ==
    LET g1 == Gcd(Abs(a[1]), b[2])
        g2 == Gcd(Abs(b[1]), a[2])
    IN  Norm((a[1] \div g1) * (b[1] \div g2), (a[2] \div g2) * (b[2] \div g1))

RInv(a) == IF a[1] < 0 THEN <<-a[2], -a[1]>> ELSE <<a[2], a[1]>>

RDiv(a, b) == RMul(a, RInv(b))

RSign(a) == IF a[1] > 0 THEN 1 ELSE IF a[1] < 0 THEN -1 ELSE 0

RLt(a, b) == RSign(RSub(a, b)) < 0
RLe(a, b) == RSign(RSub(a, b)) <= 0

RMax(a, b) == IF RLt(a, b) THEN b ELSE a

RECURSIVE RPow(_, _)
RPow(a, n) == IF n = 0 THEN One ELSE RMul(a, RPow(a, n - 1))

Min(a, b) == IF a < b THEN a ELSE b
Max(a, b) == IF a > b THEN a ELSE b

\* ------------------------------------------------------------------------
\* TYPES and BASES (module-level string constants)
\* ------------------------------------------------------------------------
TYPE_IN_FINE == "IN_FINE"
TYPE_CONSTANT_AMORTIZATION == "CONSTANT_AMORTIZATION"
TYPE_ANNUITY == "ANNUITY"
BASE_MENSUELLE_12 == "BASE_12"
BASE_360 == "BASE_360"

\* ------------------------------------------------------------------------
\* DATE HELPERS
\* ------------------------------------------------------------------------
\* calendar.monthrange(y, m)[1]
IsLeap(y) == (y % 4 = 0 /\ y % 100 # 0) \/ y % 400 = 0

MonthLength(y, m) ==
    IF m = 2 THEN (IF IsLeap(y) THEN 29 ELSE 28)
    ELSE IF m \in {4, 6, 9, 11} THEN 30 ELSE 31

\* _add_months without the clamp of the day
add_months_unclamped(d, months) ==
    LET y == d[1] + ((d[2] - 1 + months) \div 12)
        m == ((d[2] - 1 + months) % 12) + 1
    IN  <<y, m, d[3]>>

\* _add_months(d, months); // and % are floor division and modulo
add_months(d, months) ==
    LET y == d[1] + ((d[2] - 1 + months) \div 12)
        m == ((d[2] - 1 + months) % 12) + 1
        last_day == MonthLength(y, m)
        day == Min(d[3], last_day)
    IN  <<y, m, day>>

\* date.toordinal(): proleptic Gregorian day number
RECURSIVE DaysBeforeMonth(_, _)
DaysBeforeMonth(y, m) ==
    IF m = 1 THEN 0 ELSE DaysBeforeMonth(y, m - 1) + MonthLength(y, m - 1)

Ordinal(d) ==
    LET y == d[1] - 1
    IN  365 * y + (y \div 4) - (y \div 100) + (y \div 400)
        + DaysBeforeMonth(d[1], d[2]) + d[3]

\* _days_between(d1, d2)
days_between(d1, d2) == Ordinal(d2) - Ordinal(d1)

\* ------------------------------------------------------------------------
\* RATES + INTEREST
\* ------------------------------------------------------------------------
\* _rate_base12
rate_base12(annual_rate, frequency_months) ==
    RDiv(RMul(annual_rate, R(frequency_months)), R(12))

\* _rate_equiv_360: annual_rate * frequency_months * 30.478 / 360.0
rate_equiv_360(annual_rate, frequency_months) ==
    RDiv(RMul(RMul(annual_rate, R(frequency_months)), <<15239, 500>>), R(360))

\* _interest_amount counting the days of every period from the disbursement
interest_amount_from_disbursement(bal, annual_rate, base, period_index, current_date, prev, disbursement_date, frequency_months) ==
    IF RLe(bal, Zero) THEN Zero
    ELSE IF base = BASE_MENSUELLE_12
         THEN RMul(bal, rate_base12(annual_rate, frequency_months))
         ELSE RMul(RMul(bal, RDiv(annual_rate, R(360))),
                   R(Max(days_between(disbursement_date, current_date), 0)))

\* _interest_amount; prev_date is a date or "None"
interest_amount(bal, annual_rate, base, period_index, current_date, prev, disbursement_date, frequency_months) ==
    IF RLe(bal, Zero) THEN Zero
    ELSE IF base = BASE_MENSUELLE_12
         THEN RMul(bal, rate_base12(annual_rate, frequency_months))
         ELSE LET daily == RDiv(annual_rate, R(360))
                  p == IF prev = "None"
                       THEN add_months(current_date, -frequency_months)
                       ELSE prev
                  days == IF period_index = 1
                          THEN days_between(disbursement_date, current_date)
                          ELSE days_between(p, current_date)
              IN  RMul(RMul(bal, daily), R(Max(days, 0)))

\* _annuity_payment(P, r, n).  abs(r) < 1e-12 is the test r = 0 here: the
\* rates of the model are rationals that are 0 or far above 1e-12.
annuity_payment(P, r, n) ==
    IF n <= 0 THEN Zero
    ELSE IF r[1] = 0 THEN RDiv(P, R(n))
    ELSE RDiv(RMul(P, r), RSub(One, RInv(RPow(RAdd(One, r), n))))

\* ------------------------------------------------------------------------
\* Inputs of build_schedule enumerated by the model
\* ------------------------------------------------------------------------
Amount == R(120)
\* 1200 % a year is 100 % a month under BASE_12; under BASE_360 the rate
\* 180000/15239 makes the month-equivalent rate of _rate_equiv_360 an integer
HighRate(base) == IF base = BASE_MENSUELLE_12 THEN R(12) ELSE <<180000, 15239>>
Disbursement == <<2025, 1, 1>>
FirstDates == {<<2025, 1, 1>>, <<2025, 1, 31>>, <<2026, 1, 1>>}
FarFirstDate == <<2099, 1, 1>>
Fees == {Zero, R(120)}
UNKNOWN_TYPE == "SPECIFIC"

ArgsOf(t, amt, rate, n, pf, if, dp, fl, b, first, fee) ==
    [ repayment_type |-> t, amount |-> amt, annual_rate |-> rate,
      period_count |-> n, payment_frequency_months |-> pf,
      interest_frequency_months |-> if, deferred_periods |-> dp,
      flat |-> fl, base |-> b, disbursement_date |-> Disbursement,
      first_installment_date |-> first, fee_amount |-> fee ]

\* Under BASE_360 the balance of a declining-balance annuity gains a factor
\* 15239 in its denominator with every row, so that combination carries the
\* positive rate on single-row schedules only and the zero rate otherwise.
Representable(t, hr, n, if, fl, b) ==
    (t = TYPE_ANNUITY /\ ~fl /\ b = BASE_360 /\ hr) => (n \div if <= 1)

ValidInputs ==
    { a \in
        { ArgsOf(t, Amount, IF hr /\ Representable(t, hr, n, if, fl, b) THEN HighRate(b) ELSE Zero,
                 n, pf, if, dp, fl, b, first, fee) :
            t \in {TYPE_IN_FINE, TYPE_CONSTANT_AMORTIZATION, TYPE_ANNUITY},
            hr \in BOOLEAN, n \in 1..MaxPeriods, pf \in 1..3, if \in 1..2,
            dp \in 0..MaxDeferred, fl \in BOOLEAN,
            b \in {BASE_MENSUELLE_12, BASE_360}, first \in FirstDates, fee \in Fees } :
        \* flat is read by the annuity generator only
        a.flat => a.repayment_type = TYPE_ANNUITY }

\* a loan whose first installment falls 74 years after the disbursement
LongHorizonInputs ==
    { ArgsOf(t, Amount, Zero, n, 1, if, 0, FALSE, BASE_MENSUELLE_12, FarFirstDate, Zero) :
        t \in {TYPE_IN_FINE, TYPE_CONSTANT_AMORTIZATION, TYPE_ANNUITY},
        n \in 1..2, if \in 1..2 }

BaseInput ==
    ArgsOf(TYPE_ANNUITY, Amount, R(12), 2, 1, 1, 0, FALSE, BASE_MENSUELLE_12,
           <<2025, 1, 31>>, Zero)

MalformedInputs ==
    { [BaseInput EXCEPT !.repayment_type = t, !.amount = amt, !.annual_rate = rate,
                        !.period_count = n, !.payment_frequency_months = pf,
                        !.interest_frequency_months = if] :
        t \in {TYPE_IN_FINE, TYPE_CONSTANT_AMORTIZATION, TYPE_ANNUITY, UNKNOWN_TYPE},
        amt \in {R(-120), Zero, Amount}, rate \in {R(-1), R(12)},
        n \in {-1, 0, 2}, pf \in {-1, 0, 1}, if \in {0, 1} }

Inputs == ValidInputs \cup LongHorizonInputs \cup MalformedInputs

\* ------------------------------------------------------------------------
\* State
\* ------------------------------------------------------------------------
VARIABLES
    pc,                   \* position in build_schedule
    args,                 \* the arguments of the call
    outcome,              \* "running", "empty", "schedule" or "raised"
    rows, summary,        \* the returned pair
    i, balance, current, prev_date,            \* generator locals
    carry_interest, payment_event_count,
    total_payment, total_interest, total_principal,
    cashflows, dates,     \* compute_taeg locals
    high, tries, f_low, f_high,                \* _irr_bisection locals
    bis_a, bis_b, bis_k,  \* bisection: a = bis_a / 2^bis_k, b = bis_b / 2^bis_k
    bis_fa, bis_iter,     \* bisection: sign of fa, iterations done
    taeg,                 \* the value compute_taeg returns
    am_d, am_months, am_result,                \* a call of _add_months and its result
    ia_call, ia_result    \* a call of _interest_amount and its result

vars == << pc, args, outcome, rows, summary, i, balance, current, prev_date,
           carry_interest, payment_event_count,
           total_payment, total_interest, total_principal,
           cashflows, dates, high, tries, f_low, f_high,
           bis_a, bis_b, bis_k, bis_fa, bis_iter, taeg,
           am_d, am_months, am_result, ia_call, ia_result >>

gen_vars == << i, balance, current, prev_date, carry_interest, payment_event_count,
               rows, total_payment, total_interest, total_principal >>
irr_vars == << cashflows, dates, high, tries, f_low, f_high >>
bis_vars == << bis_a, bis_b, bis_k, bis_fa, bis_iter, taeg >>
fn_vars == << am_d, am_months, am_result, ia_call, ia_result >>

EmptySummary == [k \in {} |-> Zero]
NaN == [nan |-> TRUE, low |-> Zero, high |-> Zero]
\* no call of _interest_amount
NoCall == [k \in {} |-> Zero]
\* compute_taeg has not returned
NoTaeg == [nan |-> TRUE, num |-> << >>, exp |-> -1]

\* quantities each generator computes before its loop
\* the number of rows taken from the payment frequency
n_interest_by_payment == Max(1, args.period_count \div args.payment_frequency_months)

n_interest == Max(1, args.period_count \div args.interest_frequency_months)
payment_step == Max(1, args.payment_frequency_months \div args.interest_frequency_months)
n_payments ==
    Max(1, (args.period_count \div args.payment_frequency_months)
           - Max(0, args.deferred_periods \div payment_step))
amort_per_payment == RDiv(args.amount, R(n_payments))
r_pay ==
    IF args.base = BASE_MENSUELLE_12
    THEN rate_base12(args.annual_rate, args.payment_frequency_months)
    ELSE rate_equiv_360(args.annual_rate, args.payment_frequency_months)
payment_const == annuity_payment(args.amount, r_pay, n_payments)

Malformed(a) ==
    \/ RLe(a.amount, Zero) \/ RLt(a.annual_rate, Zero) \/ a.period_count <= 0
    \/ a.payment_frequency_months <= 0 \/ a.interest_frequency_months <= 0

\* every repayment type taken for one with a generator
Recognised_any(a) == TRUE

Recognised(a) ==
    a.repayment_type \in {TYPE_IN_FINE, TYPE_CONSTANT_AMORTIZATION, TYPE_ANNUITY}

Init ==
    /\ pc = "call"
    /\ args \in Inputs
    /\ outcome = "running"
    /\ rows = << >>
    /\ summary = EmptySummary
    /\ i = 0
    /\ balance = Zero
    /\ current = Disbursement
    /\ prev_date = "None"
    /\ carry_interest = Zero
    /\ payment_event_count = 0
    /\ total_payment = Zero
    /\ total_interest = Zero
    /\ total_principal = Zero
    /\ cashflows = << >>
    /\ dates = << >>
    /\ high = 0
    /\ tries = 0
    /\ f_low = 0
    /\ f_high = 0
    /\ bis_a = << >>
    /\ bis_b = << >>
    /\ bis_k = 0
    /\ bis_fa = 0
    /\ bis_iter = 0
    /\ taeg = NoTaeg
    /\ am_d = << >>
    /\ am_months = 0
    /\ am_result = << >>
    /\ ia_call = NoCall
    /\ ia_result = << >>

\* ------------------------------------------------------------------------
\* CORE API: build_schedule
\* ------------------------------------------------------------------------
\* the two validation returns and the final "return [], {}"
build_schedule_empty ==
    /\ pc = "call"
    /\ Malformed(args) \/ ~Recognised(args)
    /\ pc' = "done"
    /\ outcome' = "empty"
    /\ rows' = << >>
    /\ summary' = EmptySummary
    /\ UNCHANGED << args, i, balance, current, prev_date, carry_interest,
                    payment_event_count, total_payment, total_interest,
                    total_principal >>
    /\ UNCHANGED irr_vars
    /\ UNCHANGED bis_vars
    /\ UNCHANGED fn_vars

\* dispatch to a generator: the assignments before its loop
build_schedule_dispatch ==
    /\ pc = "call"
    /\ ~Malformed(args)
    /\ Recognised(args)
    /\ pc' = "loop"
    /\ rows' = << >>
    /\ balance' = args.amount
    /\ current' = args.first_installment_date
    /\ prev_date' = "None"
    /\ carry_interest' = Zero
    /\ payment_event_count' = 0
    /\ total_payment' = Zero
    /\ total_interest' = Zero
    /\ total_principal' = Zero
    /\ i' = 1
    /\ UNCHANGED << args, outcome, summary >>
    /\ UNCHANGED irr_vars
    /\ UNCHANGED bis_vars
    /\ UNCHANGED fn_vars

\* EmitRow without the clamp of the balance at zero
EmitRow_unclamped(payment, interest, principal) ==
    LET new_balance == RSub(balance, principal)
    IN  /\ balance' = new_balance
        /\ rows' = Append(rows, [ period |-> i, date |-> current, payment |-> payment,
                                  interest |-> interest, principal |-> principal,
                                  balance |-> new_balance ])
        /\ total_payment' = RAdd(total_payment, payment)
        /\ total_interest' = RAdd(total_interest, interest)
        /\ total_principal' = RAdd(total_principal, principal)
        /\ prev_date' = current
        /\ current' = add_months(current, args.interest_frequency_months)
        /\ i' = i + 1

\* the tail of every loop iteration: clamp the balance, append the row,
\* add to the totals, advance the dates
EmitRow(payment, interest, principal) ==
    LET new_balance == RMax(Zero, RSub(balance, principal))
    IN  /\ balance' = new_balance
        /\ rows' = Append(rows, [ period |-> i, date |-> current, payment |-> payment,
                                  interest |-> interest, principal |-> principal,
                                  balance |-> new_balance ])
        /\ total_payment' = RAdd(total_payment, payment)
        /\ total_interest' = RAdd(total_interest, interest)
        /\ total_principal' = RAdd(total_principal, principal)
        /\ prev_date' = current
        /\ current' = add_months(current, args.interest_frequency_months)
        /\ i' = i + 1

\* the grace period one period short
IsDeferred_strict(idx) == idx < args.deferred_periods

\* "if i <= deferred_periods": the period is a grace period
IsDeferred(idx) == idx <= args.deferred_periods

\* every payment event from the n_payments-th on taken as the closing one
IsClosing_atleast(count) == count >= n_payments

\* "if payment_event_count == n_payments": the closing payment event
IsClosing(count) == count = n_payments

PeriodInterest(bal) ==
    interest_amount(bal, args.annual_rate, args.base, i, current, prev_date,
                    args.disbursement_date, args.interest_frequency_months)

\* MODE 1 - IN FINE: one iteration of the loop of _schedule_in_fine
schedule_in_fine_row ==
    /\ pc = "loop"
    /\ args.repayment_type = TYPE_IN_FINE
    /\ i <= n_interest
    /\ LET deferred == IsDeferred(i)
           interest == IF deferred THEN Zero ELSE PeriodInterest(balance)
           is_payment_event == (i % payment_step = 0)
           principal == IF ~deferred /\ is_payment_event /\ i = n_interest
                        THEN balance ELSE Zero
           payment == IF deferred THEN Zero
                      ELSE IF is_payment_event THEN RAdd(interest, principal)
                      ELSE interest
       IN  EmitRow(payment, interest, principal)
    /\ UNCHANGED << pc, args, outcome, summary, carry_interest, payment_event_count >>
    /\ UNCHANGED irr_vars
    /\ UNCHANGED bis_vars
    /\ UNCHANGED fn_vars

\* MODE 2 - AMORTISSEMENT CONSTANT: one iteration of the loop of
\* _schedule_constant_amortization
schedule_constant_amortization_row ==
    /\ pc = "loop"
    /\ args.repayment_type = TYPE_CONSTANT_AMORTIZATION
    /\ i <= n_interest
    /\ LET deferred == IsDeferred(i)
           interest == IF deferred THEN Zero ELSE PeriodInterest(balance)
           is_payment_event == ~deferred /\ (i % payment_step = 0)
           count == IF is_payment_event THEN payment_event_count + 1
                    ELSE payment_event_count
           interest_total == RAdd(interest, carry_interest)
           principal == IF ~is_payment_event THEN Zero
                        ELSE IF IsClosing(count) THEN balance
                        ELSE amort_per_payment
           payment == IF is_payment_event THEN RAdd(principal, interest_total) ELSE Zero
       IN  /\ payment_event_count' = count
           /\ carry_interest' = IF deferred THEN carry_interest
                                ELSE IF is_payment_event THEN Zero
                                ELSE RAdd(carry_interest, interest)
           /\ EmitRow(payment, interest, principal)
    /\ UNCHANGED << pc, args, outcome, summary >>
    /\ UNCHANGED irr_vars
    /\ UNCHANGED bis_vars
    /\ UNCHANGED fn_vars

\* interest on the declining balance whatever the flat flag
base_balance_for_interest_declining == balance

\* "base_balance_for_interest = amount if flat else balance"
base_balance_for_interest == IF args.flat THEN args.amount ELSE balance

\* the part of the interest due an installment does not cover, forgotten
Shortfall_dropped(interest_total) == Zero

\* the carry never reset: the whole interest due stays in it
Shortfall_whole(interest_total) == interest_total

\* "if payment < interest_total: carry_interest = interest_total - payment",
\* after "carry_interest = 0.0"
Shortfall(interest_total) ==
    IF RLt(payment_const, interest_total) THEN RSub(interest_total, payment_const) ELSE Zero

\* MODE 3 - ANNUITE CONSTANTE: one iteration of the loop of _schedule_annuity
schedule_annuity_row ==
    /\ pc = "loop"
    /\ args.repayment_type = TYPE_ANNUITY
    /\ i <= n_interest
    /\ LET deferred == IsDeferred(i)
           interest == IF deferred THEN Zero
                       ELSE PeriodInterest(base_balance_for_interest)
           is_payment_event == ~deferred /\ (i % payment_step = 0)
           count == IF is_payment_event THEN payment_event_count + 1
                    ELSE payment_event_count
           interest_total == RAdd(interest, carry_interest)
           short == RLt(payment_const, interest_total)
           closing == IsClosing(count)
           principal == IF ~is_payment_event THEN Zero
                        ELSE IF closing THEN balance
                        ELSE IF short THEN Zero
                        ELSE RSub(payment_const, interest_total)
           payment == IF ~is_payment_event THEN Zero
                      ELSE IF closing THEN RAdd(balance, interest_total)
                      ELSE payment_const
       IN  /\ payment_event_count' = count
           /\ carry_interest' = IF deferred THEN carry_interest
                                ELSE IF ~is_payment_event
                                     THEN RAdd(carry_interest, interest)
                                ELSE Shortfall(interest_total)
           /\ EmitRow(payment, interest, principal)
    /\ UNCHANGED << pc, args, outcome, summary >>
    /\ UNCHANGED irr_vars
    /\ UNCHANGED bis_vars
    /\ UNCHANGED fn_vars

\* ------------------------------------------------------------------------
\* Effective rate: compute_taeg and _irr_bisection_with_dates
\* ------------------------------------------------------------------------
RECURSIVE Outflows_all(_)
\* the rows with payment >= 0: a row without payment gives a flow of 0 too
Outflows_all(rs) ==
    IF rs = << >> THEN << >>
    ELSE IF RLe(Zero, Head(rs).payment)
         THEN << Head(rs) >> \o Outflows_all(Tail(rs))
         ELSE Outflows_all(Tail(rs))

RECURSIVE Outflows(_)
\* the rows compute_taeg turns into cash flows: those with payment > 0
Outflows(rs) ==
    IF rs = << >> THEN << >>
    ELSE IF RLt(Zero, Head(rs).payment)
         THEN << Head(rs) >> \o Outflows(Tail(rs))
         ELSE Outflows(Tail(rs))

CashflowsOf(rs) ==
    << RSub(args.amount, args.fee_amount) >>
    \o [k \in 1..Len(Outflows(rs)) |-> RNeg(Outflows(rs)[k].payment)]

DatesOf(rs) ==
    << args.disbursement_date >>
    \o [k \in 1..Len(Outflows(rs)) |-> Outflows(rs)[k].date]

day_basis == IF args.base = BASE_360 THEN 360 ELSE 365

RECURSIVE RSum(_)
RSum(seq) == IF seq = << >> THEN Zero ELSE RAdd(Head(seq), RSum(Tail(seq)))

\* sign of x + y / n for rationals x, y and an integer n >= 1, computed
\* without forming the products x * n
SignOfSum(x, y, n) ==
    IF RSign(x) = 0 THEN RSign(y)
    ELSE IF RSign(y) = 0 \/ RSign(y) = RSign(x) THEN RSign(x)
    ELSE LET q == RDiv(y, RNeg(x))      \* |y| / |x| > 0
             \* n < q, n = q, n > q on integers
             below == n <= (q[1] - 1) \div q[2]
             equal == q[2] = 1 /\ q[1] = n
         IN  IF equal THEN 0 ELSE IF below THEN RSign(y) ELSE RSign(x)

\* the elapsed time days/basis of a cash flow, by its position relative to
\* 0 and 1 year
TimeClass(days) ==
    IF days < 0 THEN "early"
    ELSE IF days = 0 THEN "zero"
    ELSE IF days < day_basis THEN "below_one"
    ELSE IF days = day_basis THEN "one"
    ELSE "above_one"

\* the sum of the cash flows whose elapsed time is of one of the classes
FlowsWithin(cfs, ds, classes) ==
    RSum([k \in 1..Len(cfs) |->
            IF TimeClass(days_between(ds[1], ds[k])) \in classes THEN cfs[k] ELSE Zero])

\* The signs NPV(rate) = sum(CF_k / (1+rate)^(days_k/basis)) can take for an
\* integer rate.  At rate 0 every power is 1.0 and the NPV is the plain sum of
\* the cash flows.  For rate >= 1 the power is a real number, bracketed by
\* the neighbouring integer powers: 1 at t = 0, 1+rate at t = 1, between the
\* two for 0 < t < 1, above 1+rate for t > 1.  The two bounds of the NPV are
\*    near:  flows with t < 1 undiscounted, the others divided by 1+rate
\*    far:   flows with t = 0 undiscounted, those with 0 < t <= 1 divided by
\*           1+rate, the later ones dropped
\* and a sign is possible when a value between the bounds has it.  (A flow
\* dated before the disbursement has a term of unbounded size.)
NpvSigns(rate, cfs, ds) ==
    IF rate = 0 THEN { RSign(RSum(cfs)) }
    ELSE LET near == SignOfSum(FlowsWithin(cfs, ds, {"zero", "below_one"}),
                               FlowsWithin(cfs, ds, {"one", "above_one"}), 1 + rate)
             far == SignOfSum(FlowsWithin(cfs, ds, {"zero"}),
                              FlowsWithin(cfs, ds, {"below_one", "one"}), 1 + rate)
             early == RSign(FlowsWithin(cfs, ds, {"early"})) # 0
         IN  { s \in {-1, 0, 1} :
                 /\ s = 1 => far > 0
                 /\ s = -1 => (near < 0 \/ early)
                 /\ s = 0 => ((near <= 0 \/ early) /\ far >= 0) }

\* floor(log2(n)) for n >= 1
RECURSIVE Log2Floor(_)
Log2Floor(n) == IF n <= 1 THEN 0 ELSE 1 + Log2Floor(n \div 2)

\* math.pow(1.0 + rate, days/basis) raises OverflowError ("math range
\* error") when the result exceeds the largest double, just under 2^1024.
\* With b = 1 + rate, log2(b) lies in [L/2, (L+1)/2) for L = floor(log2(b*b)),
\* so the power overflows when L * days >= 2 * 1024 * basis, does not when
\* (L+1) * days < 2 * 1024 * basis, and either outcome is kept in between.
\* The result is the set of outcomes: TRUE = raises.
PowRaises(rate, days) ==
    LET L == Log2Floor((1 + rate) * (1 + rate))
    IN  IF rate = 0 \/ days <= 0 THEN {FALSE}
        ELSE IF L * days >= 2 * 1024 * day_basis THEN {TRUE}
        ELSE IF (L + 1) * days < 2 * 1024 * day_basis THEN {FALSE}
        ELSE BOOLEAN

\* _npv_rate_with_dates(rate, ...) can raise / can return a value
NpvMayRaise(rate, ds) ==
    \E k \in 1..Len(ds) : TRUE \in PowRaises(rate, days_between(ds[1], ds[k]))
NpvMayReturn(rate, ds) ==
    \A k \in 1..Len(ds) : FALSE \in PowRaises(rate, days_between(ds[1], ds[k]))

\* the test of compute_taeg off by one: an empty series only
NoOutflow_empty(cfs) == Len(cfs) < 1

\* compute_taeg: "if len(cashflows) < 2: return nan"
NoOutflow(cfs) == Len(cfs) < 2

\* the summary dict of the generator (the annuity generator adds its keys)
SummaryOf(t) ==
    LET common == [ total_payment |-> total_payment, total_interest |-> total_interest,
                    total_principal |-> total_principal, fee_amount |-> args.fee_amount,
                    taeg |-> t ]
    IN  IF args.repayment_type = TYPE_ANNUITY
        THEN [ total_payment |-> total_payment, total_interest |-> total_interest,
               total_principal |-> total_principal, fee_amount |-> args.fee_amount,
               taeg |-> t, payment_const |-> payment_const, flat |-> args.flat,
               interest_frequency_months |-> args.interest_frequency_months,
               payment_frequency_months |-> args.payment_frequency_months,
               deferred_periods |-> args.deferred_periods ]
        ELSE common

\* End of a generator's loop: the summary is built and compute_taeg is
\* entered.  Without an outflow (or with amount <= 0) it returns NaN at once;
\* otherwise _irr_bisection_with_dates starts with f_low = NPV(low = 0).
schedule_summary ==
    /\ pc = "loop"
    /\ i > n_interest
    /\ cashflows' = CashflowsOf(rows)
    /\ dates' = DatesOf(rows)
    /\ IF RLe(args.amount, Zero) \/ NoOutflow(CashflowsOf(rows))
       THEN /\ summary' = SummaryOf(NaN)
            /\ outcome' = "schedule"
            /\ pc' = "done"
            /\ UNCHANGED << high, f_low >>
       ELSE /\ pc' = "npv_high"
            /\ high' = 5
            /\ f_low' \in NpvSigns(0, CashflowsOf(rows), DatesOf(rows))
            /\ UNCHANGED << summary, outcome >>
    /\ tries' = 0
    /\ UNCHANGED f_high
    /\ UNCHANGED args
    /\ UNCHANGED gen_vars
    /\ UNCHANGED bis_vars
    /\ UNCHANGED fn_vars

\* f_high = _npv_rate_with_dates(high, ...) returns a value
irr_npv_high ==
    /\ pc = "npv_high"
    /\ NpvMayReturn(high, dates)
    /\ f_high' \in NpvSigns(high, cashflows, dates)
    /\ pc' = "bracket"
    /\ UNCHANGED << args, outcome, summary, cashflows, dates, high, tries, f_low >>
    /\ UNCHANGED gen_vars
    /\ UNCHANGED bis_vars
    /\ UNCHANGED fn_vars

\* math.pow overflows inside _npv_rate_with_dates: OverflowError propagates
\* out of compute_taeg, the generator and build_schedule
irr_npv_overflow ==
    /\ pc = "npv_high"
    /\ NpvMayRaise(high, dates)
    /\ outcome' = "raised"
    /\ pc' = "done"
    /\ UNCHANGED << args, summary >>
    /\ UNCHANGED irr_vars
    /\ UNCHANGED gen_vars
    /\ UNCHANGED bis_vars
    /\ UNCHANGED fn_vars

\* while f_low * f_high > 0 and tries < 12: high *= 2.0; tries += 1
irr_expand ==
    /\ pc = "bracket"
    /\ f_low * f_high > 0
    /\ tries < 12
    /\ high' = high * 2
    /\ tries' = tries + 1
    /\ pc' = "npv_high"
    /\ UNCHANGED << args, outcome, summary, cashflows, dates, f_low, f_high >>
    /\ UNCHANGED gen_vars
    /\ UNCHANGED bis_vars
    /\ UNCHANGED fn_vars

\* if f_low * f_high > 0: return float("nan")
irr_no_sign_change ==
    /\ pc = "bracket"
    /\ f_low * f_high > 0
    /\ tries >= 12
    /\ summary' = SummaryOf(NaN)
    /\ outcome' = "schedule"
    /\ pc' = "done"
    /\ UNCHANGED args
    /\ UNCHANGED irr_vars
    /\ UNCHANGED gen_vars
    /\ UNCHANGED bis_vars
    /\ UNCHANGED fn_vars

\* the bisection on [low, high] = [0, high]: it returns a midpoint of a
\* sub-interval of the bracket, kept here as the bracket itself
irr_bisect ==
    /\ pc = "bracket"
    /\ ~(f_low * f_high > 0)
    /\ summary' = SummaryOf([nan |-> FALSE, low |-> Zero, high |-> R(high)])
    /\ outcome' = "schedule"
    /\ pc' = "done"
    /\ UNCHANGED args
    /\ UNCHANGED irr_vars
    /\ UNCHANGED gen_vars
    /\ UNCHANGED bis_vars
    /\ UNCHANGED fn_vars

Next ==
    \/ build_schedule_empty
    \/ build_schedule_dispatch
    \/ schedule_in_fine_row
    \/ schedule_constant_amortization_row
    \/ schedule_annuity_row
    \/ schedule_summary
    \/ irr_npv_high
    \/ irr_npv_overflow
    \/ irr_expand
    \/ irr_no_sign_change
    \/ irr_bisect

Spec == Init /\ [][Next]_vars

TypeOK ==
    /\ pc \in {"call", "loop", "npv_high", "bracket", "done", "taeg", "irr_while", "irr_for", "add_months", "interest_amount"}
    /\ outcome \in {"running", "empty", "schedule", "raised"}

\* ------------------------------------------------------------------------
\* Effective rate computed exactly: compute_taeg on cash flows that fall at
\* the disbursement date or exactly one basis-year after it
\* ------------------------------------------------------------------------
\* The bisection halves its bracket some 26 times and more, and the NPV of a
\* midpoint n / 2^k needs products beyond 32 bits.  Natural numbers of any
\* size are little-endian sequences of limbs base Limb without leading zero
\* limbs (<< >> is 0); integers are pairs <<sign, magnitude>>.
Limb == 10000

RECURSIVE NatOf(_)
NatOf(n) == IF n = 0 THEN << >> ELSE << n % Limb >> \o NatOf(n \div Limb)

RECURSIVE NTrim(_)
NTrim(x) ==
    IF x = << >> THEN << >>
    ELSE IF x[Len(x)] = 0 THEN NTrim(SubSeq(x, 1, Len(x) - 1)) ELSE x

RECURSIVE NAddC(_, _, _)
NAddC(x, y, carry) ==
    IF x = << >> /\ y = << >> THEN NatOf(carry)
    ELSE LET dx == IF x = << >> THEN 0 ELSE Head(x)
             dy == IF y = << >> THEN 0 ELSE Head(y)
             t == dx + dy + carry
         IN  << t % Limb >> \o NAddC(IF x = << >> THEN << >> ELSE Tail(x),
                                     IF y = << >> THEN << >> ELSE Tail(y),
                                     t \div Limb)

NAdd(x, y) == NTrim(NAddC(x, y, 0))

RECURSIVE NCmpFrom(_, _, _)
NCmpFrom(x, y, k) ==
    IF k = 0 THEN 0
    ELSE IF x[k] < y[k] THEN -1
    ELSE IF x[k] > y[k] THEN 1
    ELSE NCmpFrom(x, y, k - 1)

\* -1, 0, 1 as x < y, x = y, x > y
NCmp(x, y) ==
    IF Len(x) < Len(y) THEN -1
    ELSE IF Len(x) > Len(y) THEN 1
    ELSE NCmpFrom(x, y, Len(x))

RECURSIVE NSubB(_, _, _)
NSubB(x, y, borrow) ==
    IF x = << >> THEN << >>
    ELSE LET dy == IF y = << >> THEN 0 ELSE Head(y)
             t == Head(x) - dy - borrow
         IN  << IF t < 0 THEN t + Limb ELSE t >>
             \o NSubB(Tail(x), IF y = << >> THEN << >> ELSE Tail(y),
                      IF t < 0 THEN 1 ELSE 0)

\* x - y for x >= y
NSub(x, y) == NTrim(NSubB(x, y, 0))

RECURSIVE NMulSmall(_, _, _)
NMulSmall(x, m, carry) ==
    IF x = << >> THEN NatOf(carry)
    ELSE LET t == Head(x) * m + carry
         IN  << t % Limb >> \o NMulSmall(Tail(x), m, t \div Limb)

RECURSIVE NMulAcc(_, _)
NMulAcc(x, y) ==
    IF y = << >> THEN << >>
    ELSE NAddC(NMulSmall(x, Head(y), 0), << 0 >> \o NMulAcc(x, Tail(y)), 0)

NMul(x, y) == NTrim(NMulAcc(x, y))

RECURSIVE NPow2(_)
NPow2(k) == IF k = 0 THEN << 1 >> ELSE NTrim(NMulSmall(NPow2(k - 1), 2, 0))

ZZero == << 0, << >> >>
ZOf(n) == IF n = 0 THEN ZZero ELSE << IF n < 0 THEN -1 ELSE 1, NatOf(Abs(n)) >>
ZSign(u) == u[1]
ZNeg(u) == << -u[1], u[2] >>
ZNat(x) == IF x = << >> THEN ZZero ELSE << 1, x >>

ZAdd(u, v) ==
    IF u[1] = 0 THEN v
    ELSE IF v[1] = 0 THEN u
    ELSE IF u[1] = v[1] THEN << u[1], NAdd(u[2], v[2]) >>
    ELSE LET c == NCmp(u[2], v[2])
         IN  IF c = 0 THEN ZZero
             ELSE IF c > 0 THEN << u[1], NSub(u[2], v[2]) >>
             ELSE << v[1], NSub(v[2], u[2]) >>

ZMul(u, v) == IF u[1] * v[1] = 0 THEN ZZero ELSE << u[1] * v[1], NMul(u[2], v[2]) >>

\* 1e7 = 1 / eps of _irr_bisection_with_dates, as a natural number
InvEps == NatOf(10000000)

\* every cash flow falls at t = 0 or at t = 1: (1+rate)^t is 1 or 1+rate
ExactFlows(cfs, ds) ==
    \A k \in 1..Len(ds) : TimeClass(days_between(ds[1], ds[k])) \in {"zero", "one"}

\* the NPV with the flows at t = 1 left undiscounted
NpvNum_undiscounted(n, k, cfs, ds) ==
    LET S0 == FlowsWithin(cfs, ds, {"zero"})
        S1 == FlowsWithin(cfs, ds, {"one"})
    IN  ZAdd(ZMul(ZMul(ZOf(S0[1]), ZOf(S1[2])), << 1, NPow2(k) >>),
             ZMul(ZMul(ZOf(S1[1]), ZOf(S0[2])), << 1, NPow2(k) >>))

\* _npv_rate_with_dates at rate = n / 2^k >= 0 for such flows: with S0, S1 the
\* sums of the flows at t = 0 and t = 1, NPV = S0 + S1 / (1 + rate)
\*   = NpvNum / NpvDen,  NpvDen = den(S0) * den(S1) * (2^k + n) > 0
NpvNum(n, k, cfs, ds) ==
    LET S0 == FlowsWithin(cfs, ds, {"zero"})
        S1 == FlowsWithin(cfs, ds, {"one"})
    IN  ZAdd(ZMul(ZMul(ZOf(S0[1]), ZOf(S1[2])), << 1, NAdd(NPow2(k), n) >>),
             ZMul(ZMul(ZOf(S1[1]), ZOf(S0[2])), << 1, NPow2(k) >>))

NpvDen(n, k, cfs, ds) ==
    LET S0 == FlowsWithin(cfs, ds, {"zero"})
        S1 == FlowsWithin(cfs, ds, {"one"})
    IN  NMul(NMul(NatOf(S0[2]), NatOf(S1[2])), NAdd(NPow2(k), n))

NpvSign(n, k, cfs, ds) == ZSign(NpvNum(n, k, cfs, ds))

\* abs(NPV) < eps
NpvBelowEps(n, k, cfs, ds) ==
    NCmp(NMul(NpvNum(n, k, cfs, ds)[2], InvEps), NpvDen(n, k, cfs, ds)) < 0

\* abs(b - a) < eps for a = na / 2^k <= b = nb / 2^k
WidthBelowEps(na, nb, k) == NCmp(NMul(NSub(nb, na), InvEps), NPow2(k)) < 0

TaegNaN == [nan |-> TRUE, num |-> << >>, exp |-> 0]
TaegRate(n, k) == [nan |-> FALSE, num |-> n, exp |-> k]

\* Inputs of compute_taeg: a schedule of one row paid one basis-year after
\* the disbursement, payment = (amount - fee) * (1 + rho)
OneYearAfter(base) == IF base = BASE_360 THEN <<2025, 12, 27>> ELSE <<2026, 1, 1>>
NetInflows == { << <<1, 1000>>, Zero >>, << <<1, 100>>, Zero >>,
                << R(1000), Zero >>, << R(2000), R(1000) >> }
Rhos == { R(-1), <<-1, 2>>, Zero, <<1, 10>>, One, <<5, 2>>, R(5), R(7) }

TaegInputs ==
    { ArgsOf(TYPE_IN_FINE, nf[1], rho, 12, 12, 12, 0, FALSE, b, OneYearAfter(b), nf[2]) :
        nf \in NetInflows, rho \in Rhos, b \in {BASE_MENSUELLE_12, BASE_360} }

TaegRows(a) ==
    << [ period |-> 1, date |-> a.first_installment_date,
         payment |-> RMul(RSub(a.amount, a.fee_amount), RAdd(One, a.annual_rate)),
         interest |-> RMul(RSub(a.amount, a.fee_amount), a.annual_rate),
         principal |-> RSub(a.amount, a.fee_amount), balance |-> Zero ] >>

InitTaeg ==
    /\ pc = "taeg"
    /\ args \in TaegInputs
    /\ outcome = "running"
    /\ rows = TaegRows(args)
    /\ summary = EmptySummary
    /\ i = 0
    /\ balance = Zero
    /\ current = Disbursement
    /\ prev_date = "None"
    /\ carry_interest = Zero
    /\ payment_event_count = 0
    /\ total_payment = Zero
    /\ total_interest = Zero
    /\ total_principal = Zero
    /\ cashflows = << >>
    /\ dates = << >>
    /\ high = 0
    /\ tries = 0
    /\ f_low = 0
    /\ f_high = 0
    /\ bis_a = << >>
    /\ bis_b = << >>
    /\ bis_k = 0
    /\ bis_fa = 0
    /\ bis_iter = 0
    /\ taeg = NoTaeg
    /\ am_d = << >>
    /\ am_months = 0
    /\ am_result = << >>
    /\ ia_call = NoCall
    /\ ia_result = << >>

\* compute_taeg up to the first two NPV evaluations of the solver
compute_taeg_call ==
    /\ pc = "taeg"
    /\ cashflows' = CashflowsOf(rows)
    /\ dates' = DatesOf(rows)
    /\ IF RLe(args.amount, Zero) \/ NoOutflow(CashflowsOf(rows))
       THEN /\ taeg' = TaegNaN
            /\ pc' = "done"
            /\ UNCHANGED << high, f_low, f_high >>
       ELSE /\ ExactFlows(CashflowsOf(rows), DatesOf(rows))
            /\ pc' = "irr_while"
            /\ high' = 5
            /\ f_low' = NpvSign(<< >>, 0, CashflowsOf(rows), DatesOf(rows))
            /\ f_high' = NpvSign(NatOf(5), 0, CashflowsOf(rows), DatesOf(rows))
            /\ UNCHANGED taeg
    /\ tries' = 0
    /\ UNCHANGED << args, outcome, summary, bis_a, bis_b, bis_k, bis_fa, bis_iter >>
    /\ UNCHANGED gen_vars
    /\ UNCHANGED fn_vars

\* while f_low * f_high > 0 and tries < 12: one iteration
irr_while_expand ==
    /\ pc = "irr_while"
    /\ f_low * f_high > 0
    /\ tries < 12
    /\ high' = high * 2
    /\ f_high' = NpvSign(NatOf(high * 2), 0, cashflows, dates)
    /\ tries' = tries + 1
    /\ UNCHANGED << pc, args, outcome, summary, cashflows, dates, f_low >>
    /\ UNCHANGED gen_vars
    /\ UNCHANGED bis_vars
    /\ UNCHANGED fn_vars

\* if f_low * f_high > 0: return float("nan")
irr_while_nan ==
    /\ pc = "irr_while"
    /\ f_low * f_high > 0
    /\ tries >= 12
    /\ taeg' = TaegNaN
    /\ pc' = "done"
    /\ UNCHANGED << args, outcome, summary, bis_a, bis_b, bis_k, bis_fa, bis_iter >>
    /\ UNCHANGED irr_vars
    /\ UNCHANGED gen_vars
    /\ UNCHANGED fn_vars

\* a, b = low, high; fa, fb = f_low, f_high
irr_for_enter ==
    /\ pc = "irr_while"
    /\ ~(f_low * f_high > 0)
    /\ bis_a' = << >>
    /\ bis_b' = NatOf(high)
    /\ bis_k' = 0
    /\ bis_fa' = f_low
    /\ bis_iter' = 0
    /\ pc' = "irr_for"
    /\ UNCHANGED << args, outcome, summary, taeg >>
    /\ UNCHANGED irr_vars
    /\ UNCHANGED gen_vars
    /\ UNCHANGED fn_vars

\* one iteration of "for _ in range(max_iter)", and the return after the
\* loop when it was the last one: c = (a + b) / 2 = (bis_a + bis_b) / 2^(bis_k+1)
irr_for_step ==
    /\ pc = "irr_for"
    /\ bis_iter < 200
    /\ LET c == NAdd(bis_a, bis_b)
           k == bis_k + 1
           fc == NpvSign(c, k, cashflows, dates)
           take_low == bis_fa * fc <= 0
           new_a == IF take_low THEN NMulSmall(bis_a, 2, 0) ELSE c
           new_b == IF take_low THEN c ELSE NTrim(NMulSmall(bis_b, 2, 0))
       IN  IF NpvBelowEps(c, k, cashflows, dates) \/ WidthBelowEps(bis_a, bis_b, bis_k)
           THEN /\ taeg' = TaegRate(c, k)
                /\ pc' = "done"
                /\ UNCHANGED << bis_a, bis_b, bis_k, bis_fa, bis_iter >>
           ELSE /\ bis_a' = NTrim(new_a)
                /\ bis_b' = new_b
                /\ bis_k' = k
                /\ bis_fa' = IF take_low THEN bis_fa ELSE fc
                /\ bis_iter' = bis_iter + 1
                /\ IF bis_iter + 1 = 200
                   THEN /\ taeg' = TaegRate(NAdd(new_a, new_b), k + 1)
                        /\ pc' = "done"
                   ELSE UNCHANGED << taeg, pc >>
    /\ UNCHANGED << args, outcome, summary >>
    /\ UNCHANGED irr_vars
    /\ UNCHANGED gen_vars
    /\ UNCHANGED fn_vars

NextTaeg ==
    \/ compute_taeg_call
    \/ irr_while_expand
    \/ irr_while_nan
    \/ irr_for_enter
    \/ irr_for_step

SpecTaeg == InitTaeg /\ [][NextTaeg]_vars

\* ------------------------------------------------------------------------
\* _add_months as a function of its arguments
\* ------------------------------------------------------------------------
\* the dates of some years, leap and common, century years included
CalendarYears == {1900, 2000, 2023, 2024, 2025}
CalendarDates ==
    { <<y, m, d>> : y \in CalendarYears, m \in 1..12, d \in {1, 15, 28, 29, 30, 31} }
    \cap { dt \in CalendarYears \X (1..12) \X (1..31) : dt[3] <= MonthLength(dt[1], dt[2]) }

InitAddMonths ==
    /\ pc = "add_months"
    /\ am_d \in CalendarDates
    /\ am_months \in (-MaxShift)..MaxShift
    /\ am_result = << >>
    /\ ia_call = NoCall
    /\ ia_result = << >>
    /\ args = BaseInput
    /\ outcome = "running"
    /\ rows = << >>
    /\ summary = EmptySummary
    /\ i = 0
    /\ balance = Zero
    /\ current = Disbursement
    /\ prev_date = "None"
    /\ carry_interest = Zero
    /\ payment_event_count = 0
    /\ total_payment = Zero
    /\ total_interest = Zero
    /\ total_principal = Zero
    /\ cashflows = << >>
    /\ dates = << >>
    /\ high = 0
    /\ tries = 0
    /\ f_low = 0
    /\ f_high = 0
    /\ bis_a = << >>
    /\ bis_b = << >>
    /\ bis_k = 0
    /\ bis_fa = 0
    /\ bis_iter = 0
    /\ taeg = NoTaeg

add_months_call ==
    /\ pc = "add_months"
    /\ am_result' = add_months(am_d, am_months)
    /\ pc' = "done"
    /\ UNCHANGED << args, outcome, summary, am_d, am_months, ia_call, ia_result >>
    /\ UNCHANGED gen_vars
    /\ UNCHANGED irr_vars
    /\ UNCHANGED bis_vars

NextAddMonths == add_months_call

SpecAddMonths == InitAddMonths /\ [][NextAddMonths]_vars

\* ------------------------------------------------------------------------
\* _interest_amount as a function of its arguments
\* ------------------------------------------------------------------------
InterestCalls ==
    [ balance : {R(-120), Zero, Amount},
      annual_rate : {Zero, <<1, 20>>, R(12)},
      base : {BASE_MENSUELLE_12, BASE_360},
      period_index : 1..3,
      current_date : {<<2024, 12, 15>>, <<2025, 1, 31>>, <<2025, 3, 1>>},
      prev_date : {"None", <<2025, 1, 31>>, <<2025, 2, 28>>, <<2025, 4, 1>>},
      disbursement_date : {Disbursement},
      frequency_months : 1..3 ]

InitInterest ==
    /\ pc = "interest_amount"
    /\ ia_call \in InterestCalls
    /\ ia_result = << >>
    /\ am_d = << >>
    /\ am_months = 0
    /\ am_result = << >>
    /\ args = BaseInput
    /\ outcome = "running"
    /\ rows = << >>
    /\ summary = EmptySummary
    /\ i = 0
    /\ balance = Zero
    /\ current = Disbursement
    /\ prev_date = "None"
    /\ carry_interest = Zero
    /\ payment_event_count = 0
    /\ total_payment = Zero
    /\ total_interest = Zero
    /\ total_principal = Zero
    /\ cashflows = << >>
    /\ dates = << >>
    /\ high = 0
    /\ tries = 0
    /\ f_low = 0
    /\ f_high = 0
    /\ bis_a = << >>
    /\ bis_b = << >>
    /\ bis_k = 0
    /\ bis_fa = 0
    /\ bis_iter = 0
    /\ taeg = NoTaeg

interest_amount_call ==
    /\ pc = "interest_amount"
    /\ ia_result' = interest_amount(ia_call.balance, ia_call.annual_rate, ia_call.base,
                                    ia_call.period_index, ia_call.current_date,
                                    ia_call.prev_date, ia_call.disbursement_date,
                                    ia_call.frequency_months)
    /\ pc' = "done"
    /\ UNCHANGED << args, outcome, summary, am_d, am_months, am_result, ia_call >>
    /\ UNCHANGED gen_vars
    /\ UNCHANGED irr_vars
    /\ UNCHANGED bis_vars

NextInterest == interest_amount_call

SpecInterest == InitInterest /\ [][NextInterest]_vars

\* ------------------------------------------------------------------------
\* Properties
\* ------------------------------------------------------------------------
Returned == outcome = "schedule"
Valid == ~Malformed(args) /\ Recognised(args)
LastRow == rows[Len(rows)]
PrevBalance(k) == IF k = 1 THEN args.amount ELSE rows[k - 1].balance
\* row k is a non-deferred payment event
IsEventRow(k) ==
    /\ rows[k].period > args.deferred_periods
    /\ rows[k].period % payment_step = 0
EventRows == { k \in 1..Len(rows) : IsEventRow(k) }
EventIndex(k) == Cardinality({ j \in 1..k : IsEventRow(j) })
SumOfPayment == RSum([k \in 1..Len(rows) |-> rows[k].payment])
SumOfInterest == RSum([k \in 1..Len(rows) |-> rows[k].interest])
SumOfPrincipal == RSum([k \in 1..Len(rows) |-> rows[k].principal])

\* C1: for every returned schedule, each total of the summary is the sum of
\* its field over the rows and total_payment = total_interest +
\* total_principal.
C1_TotalsBalance ==
    Returned =>
        /\ summary.total_payment = SumOfPayment
        /\ summary.total_interest = SumOfInterest
        /\ summary.total_principal = SumOfPrincipal
        /\ summary.total_payment = RAdd(summary.total_interest, summary.total_principal)

\* C2: whenever deferred_periods < N_interest, the balance of the last
\* returned row is 0.
C2_FinalBalanceZero ==
    (Returned /\ args.deferred_periods < n_interest) => LastRow.balance = Zero

\* C3: a malformed input returns (empty rows, empty summary) without raising,
\* and a well-formed input with a recognised mode returns a non-empty row
\* list; so an empty result occurs exactly when the input is malformed.
C3_EmptyIffMalformed ==
    pc = "done" =>
        /\ Malformed(args) => (outcome = "empty" /\ rows = << >> /\ DOMAIN summary = {})
        /\ Valid => (outcome = "schedule" /\ Len(rows) >= 1)

\* C4: with balance_0 = amount, every row has balance_i = max(0, balance_{i-1}
\* - principal_i); the balances never increase and are never negative, and
\* payment, interest and principal of every row are >= 0.
C4_BalanceRecurrence ==
    \A k \in 1..Len(rows) :
        /\ rows[k].balance = RMax(Zero, RSub(PrevBalance(k), rows[k].principal))
        /\ RLe(rows[k].balance, PrevBalance(k))
        /\ RLe(Zero, rows[k].balance)
        /\ RLe(Zero, rows[k].payment)
        /\ RLe(Zero, rows[k].interest)
        /\ RLe(Zero, rows[k].principal)

\* a finished schedule where a row's principal exceeded the balance before it
\* and the clamp kept the balance at 0
C4_Witness ==
    /\ Returned
    /\ \E k \in 2..Len(rows) :
          /\ RLt(PrevBalance(k), rows[k].principal)
          /\ rows[k].balance = Zero
          /\ RLt(rows[k - 1].balance, PrevBalance(k - 1))

\* C5: the loop iteration of a period i <= deferred_periods appends a row
\* with interest = payment = principal = 0 whose balance is the balance of
\* the previous row (the amount at period 1), and leaves the carried interest
\* unchanged.
C5_DeferredPeriods ==
    [][ (pc = "loop" /\ i <= n_interest /\ i <= args.deferred_periods) =>
            /\ Len(rows') = Len(rows) + 1
            /\ rows'[Len(rows')].period = i
            /\ rows'[Len(rows')].interest = Zero
            /\ rows'[Len(rows')].payment = Zero
            /\ rows'[Len(rows')].principal = Zero
            /\ rows'[Len(rows')].balance =
                  (IF rows = << >> THEN args.amount ELSE rows[Len(rows)].balance)
            /\ balance' = balance
            /\ carry_interest' = carry_interest ]_vars

\* a finished schedule at a positive rate whose second row is a deferred one
C5_Witness ==
    /\ Returned
    /\ RLt(Zero, args.annual_rate)
    /\ Len(rows) >= 3
    /\ rows[2].period <= args.deferred_periods
    /\ rows[2].payment = Zero /\ rows[2].balance = args.amount

\* C6: in IN_FINE mode every row before the last has principal = 0 and the
\* last row has a non-zero principal equal to the original amount.
C6_InFinePrincipal ==
    (Returned /\ args.repayment_type = TYPE_IN_FINE) =>
        /\ \A k \in 1..(Len(rows) - 1) : rows[k].principal = Zero
        /\ LastRow.principal = args.amount
        /\ LastRow.principal # Zero

\* C7: in CONSTANT_AMORTIZATION mode every non-deferred payment-event row
\* except the last one has principal = amount / N_payments, and the last
\* payment-event row has principal equal to the balance before it and leaves
\* the balance at 0.
C7_ConstantPrincipal ==
    (Returned /\ args.repayment_type = TYPE_CONSTANT_AMORTIZATION) =>
        \A k \in EventRows :
            IF \E j \in EventRows : j > k
            THEN rows[k].principal = RDiv(args.amount, R(n_payments))
            ELSE /\ rows[k].principal = PrevBalance(k)
                 /\ rows[k].balance = Zero

C9_UnsolvableRateIsNaN ==
    (pc = "done" /\ Valid /\ (NoOutflow(cashflows) \/ f_low * f_high > 0)) =>
        /\ outcome = "schedule"
        /\ summary.taeg = NaN
        /\ Len(rows) = n_interest
        /\ {"total_payment", "total_interest", "total_principal"} \subseteq DOMAIN summary

\* C10 as stated: fewer than two rows with payment > 0 give taeg = NaN.
C10_FewerThanTwoOutflows ==
    (Returned /\ Len(Outflows(rows)) < 2) => summary.taeg.nan

\* C10 amended: no row with payment > 0 gives taeg = NaN.
C10_NoOutflowIsNaN ==
    (Returned /\ Len(Outflows(rows)) = 0) => summary.taeg = NaN

\* a finished schedule without any payment although the net inflow is zero
C10_Witness ==
    /\ Returned
    /\ Len(rows) >= 1
    /\ Len(Outflows(rows)) = 0
    /\ args.fee_amount = args.amount
    /\ summary.taeg = NaN

\* ------------------------------------------------------------------------
\* Properties of compute_taeg computed exactly (SpecTaeg)
\* ------------------------------------------------------------------------
TaegDone == pc = "done" /\ taeg # NoTaeg
NetInflow == RSub(args.amount, args.fee_amount)
\* the rate rho with payment = (amount - fee) * (1 + rho) for the only row
Rho == RSub(RDiv(rows[1].payment, NetInflow), One)
\* one row, paid exactly one basis-year after the disbursement, with a
\* positive net inflow and rho in [0, 5]
SinglePaymentCase ==
    /\ Len(rows) = 1
    /\ days_between(args.disbursement_date, rows[1].date) = day_basis
    /\ RLt(Zero, NetInflow)
    /\ RLe(Zero, Rho) /\ RLe(Rho, R(5))
\* the returned rate is a number and abs(taeg - r) < 1e-4
TaegWithin(r) ==
    /\ ~taeg.nan
    /\ LET scale == NPow2(taeg.exp)
           diff == ZAdd(ZMul(ZNat(taeg.num), ZOf(r[2])), ZNeg(ZMul(ZOf(r[1]), ZNat(scale))))
       IN  NCmp(NMul(diff[2], NatOf(10000)), NMul(NatOf(r[2]), scale)) < 0

\* C11 as stated: for a net inflow P > 0 and a single row with payment
\* P * (1 + rho) dated one basis-year after the disbursement, rho in [0, 5],
\* compute_taeg returns a rate within 1e-4 of rho.
C11_SinglePaymentRate ==
    (TaegDone /\ SinglePaymentCase) => TaegWithin(Rho)

\* C11 amended: the same for a net inflow P >= 0.01.
C11_SinglePaymentRateFromOneCent ==
    (TaegDone /\ SinglePaymentCase /\ RLe(<<1, 100>>, NetInflow)) => TaegWithin(Rho)

\* amount = 1000, fee = 0, one payment of 1100 one year later: the rate
\* returned is within 1e-4 of 0.10
C11_Witness ==
    /\ TaegDone
    /\ SinglePaymentCase
    /\ args.amount = R(1000) /\ args.fee_amount = Zero
    /\ rows[1].payment = R(1100)
    /\ TaegWithin(<<1, 10>>)

\* ------------------------------------------------------------------------
\* Properties of build_schedule (Spec), continued
\* ------------------------------------------------------------------------
\* compute_taeg has built its cash-flow series
SeriesBuilt == pc \in {"npv_high", "bracket", "done"} /\ cashflows # << >>
PaidRows == { k \in 1..Len(rows) : RLt(Zero, rows[k].payment) }
\* the j-th row with payment > 0
PaidRow(j) == CHOOSE k \in PaidRows : Cardinality({ h \in PaidRows : h <= k }) = j
\* the series is amount - fee at the disbursement date, then -payment at the
\* row's date for the rows with payment > 0, in row order, and the day basis
\* of the elapsed times is 360 under BASE_360 and 365 otherwise
SeriesAsDescribed ==
    /\ Len(cashflows) = 1 + Cardinality(PaidRows)
    /\ Len(dates) = Len(cashflows)
    /\ cashflows[1] = RSub(args.amount, args.fee_amount)
    /\ dates[1] = args.disbursement_date
    /\ \A j \in 1..Cardinality(PaidRows) :
          /\ cashflows[j + 1] = RNeg(rows[PaidRow(j)].payment)
          /\ dates[j + 1] = rows[PaidRow(j)].date
    /\ day_basis = IF args.base = "BASE_360" THEN 360 ELSE 365

\* C12 as stated: the cash-flow series given to the solver is one positive
\* inflow amount - fee_amount at the disbursement date, then, in row order,
\* one outflow -payment at the row's date for each row with payment > 0 and
\* nothing for the other rows; elapsed times are days / 360 under BASE_360
\* and days / 365 otherwise.
C12_CashflowSeries ==
    SeriesBuilt => (SeriesAsDescribed /\ RLt(Zero, cashflows[1]))

\* C12 amended: the same series, its first flow amount - fee_amount being
\* positive exactly when fee_amount < amount.
C12_CashflowSeriesAnySign ==
    SeriesBuilt =>
        (SeriesAsDescribed /\ (RLt(Zero, cashflows[1]) <=> RLt(args.fee_amount, args.amount)))

\* a series of a positive inflow and two outflows, built from a schedule
\* that has a row without payment, under BASE_360
C12_Witness ==
    /\ SeriesBuilt
    /\ RLt(Zero, cashflows[1])
    /\ Len(cashflows) = 3
    /\ Len(rows) > 2
    /\ args.base = BASE_360

\* the solver was entered: amount > 0 and at least one outflow
SolverEntered == SeriesBuilt /\ RLt(Zero, args.amount) /\ ~NoOutflow(cashflows)

\* C13: the solver terminates: the bracket [0, 5] is doubled at most 12
\* times, and the solver then returns either NaN or a rate inside the final
\* bracket [0, 5 * 2^tries].
C13_SolverReturns ==
    /\ tries <= 12
    /\ (pc = "done" /\ SolverEntered) =>
          /\ Returned
          /\ \/ summary.taeg = NaN
             \/ /\ ~summary.taeg.nan
                /\ RLe(Zero, summary.taeg.low)
                /\ RLe(summary.taeg.high, R(5 * (2 ^ tries)))

\* ------------------------------------------------------------------------
\* Properties of _add_months (SpecAddMonths)
\* ------------------------------------------------------------------------
\* the last valid day of month m of year y, from the calendar's table
LastValidDay(y, m) ==
    IF m = 2 /\ y % 4 = 0 /\ (y % 100 # 0 \/ y % 400 = 0) THEN 29
    ELSE << 31, 28, 31, 30, 31, 30, 31, 31, 30, 31, 30, 31 >>[m]
AddMonthsReturned == pc = "done" /\ am_result # << >>

\* C14: _add_months(d, n) returns, for n negative too, the date whose year
\* and month are d's shifted by n months, with carry and borrow across year
\* boundaries, and whose day is min(d.day, last valid day of that month).
C14_AddMonths ==
    AddMonthsReturned =>
        /\ am_result[2] \in 1..12
        /\ (12 * am_result[1] + am_result[2]) - (12 * am_d[1] + am_d[2]) = am_months
        /\ am_result[3] = Min(am_d[3], LastValidDay(am_result[1], am_result[2]))
        /\ (am_d = <<2024, 1, 31>> /\ am_months = 1) => am_result = <<2024, 2, 29>>
        /\ (am_d = <<2025, 1, 31>> /\ am_months = 1) => am_result = <<2025, 2, 28>>

\* a day clamped after a borrow across a year boundary: 2024-03-31 minus 13
\* months is 2023-02-28
C14_Witness ==
    /\ AddMonthsReturned
    /\ am_d = <<2024, 3, 31>>
    /\ am_months = -13
    /\ am_result = <<2023, 2, 28>>

\* a generator has left its loop
LoopLeft == pc \in {"npv_high", "bracket", "done"} /\ outcome # "empty"

\* C15: every generator emits exactly max(1, period_count //
\* interest_frequency_months) rows, with periods 1, 2, ... in order, and no
\* later step (a loop iteration, the TAEG computation) changes a row that
\* was appended.
C15_RowsAppendOnly ==
    /\ [](/\ \A k \in 1..Len(rows) : rows[k].period = k
          /\ LoopLeft =>
                Len(rows) = Max(1, args.period_count \div args.interest_frequency_months))
    /\ [][\A k \in 1..Len(rows) : Len(rows') >= k /\ rows'[k] = rows[k]]_vars

\* a returned schedule of three rows or more whose effective rate was solved
C15_Witness ==
    /\ Returned
    /\ Len(rows) >= 3
    /\ ~summary.taeg.nan

\* the last payment-event row before row k (0 when there is none)
PrevEvent(k) ==
    LET before == { j \in EventRows : j < k }
    IN  IF before = {} THEN 0 ELSE CHOOSE j \in before : \A h \in before : h <= j
\* the plain sum of the interest of the rows between the previous payment
\* event and row k
InterestSince(k) ==
    RSum([j \in 1..(k - 1 - PrevEvent(k)) |-> rows[PrevEvent(k) + j].interest])

\* C16: in every mode the interest of a non-deferred period that is not a
\* payment event is collected at the next payment event: the payment of a
\* payment-event row is its principal plus its own interest plus the plain
\* sum of the interest of the non-payment rows since the previous payment
\* event.
C16_CarryCollected ==
    Returned =>
        \A k \in EventRows :
            rows[k].payment =
                RAdd(RAdd(rows[k].principal, rows[k].interest), InterestSince(k))

\* C17: in every mode a row whose period is not a multiple of paymentStep
\* has payment = 0 and principal = 0, whatever its interest.
C17_CashOnlyOnPaymentEvents ==
    \A k \in 1..Len(rows) :
        (rows[k].period % Max(1, args.payment_frequency_months \div args.interest_frequency_months) # 0)
            => (rows[k].payment = Zero /\ rows[k].principal = Zero)

\* a loop iteration of the annuity generator that appends a payment-event row
AnnuityEventStep ==
    /\ pc = "loop"
    /\ args.repayment_type = TYPE_ANNUITY
    /\ Len(rows') = Len(rows) + 1
    /\ i > args.deferred_periods
    /\ i % payment_step = 0

\* C18: in ANNUITY mode, at a payment event that is not the closing one, the
\* interest due is the row's interest plus the carry; if the constant
\* installment is smaller, the principal is 0, the balance is unchanged and
\* the carry becomes interest due - installment, to be added to the interest
\* due of the next payment event; otherwise principal = installment -
\* interest due.  (The closing event pays balance + interest due.)
C18_ShortInstallment ==
    [][AnnuityEventStep =>
         LET row == rows'[Len(rows')]
             due == RAdd(row.interest, carry_interest)
         IN  IF payment_event_count' = n_payments
             THEN row.payment = RAdd(balance, due)
             ELSE /\ row.payment = payment_const
                  /\ IF RLt(row.payment, due)
                     THEN /\ row.principal = Zero
                          /\ balance' = balance
                          /\ carry_interest' = RSub(due, row.payment)
                     ELSE /\ row.principal = RSub(row.payment, due)
                          /\ carry_interest' = Zero]_vars

\* two payment events in a row whose installment is below the interest due:
\* no principal, the balance still the amount, and a carry made of both
\* shortfalls
C18_Witness ==
    /\ args.repayment_type = TYPE_ANNUITY
    /\ Len(rows) = 2
    /\ payment_event_count = 2
    /\ n_payments > 2
    /\ rows[1].principal = Zero /\ rows[2].principal = Zero
    /\ rows[2].balance = args.amount
    /\ RLt(rows[1].payment, rows[1].interest)
    /\ carry_interest = RSub(RAdd(rows[1].interest, rows[2].interest),
                             RAdd(rows[1].payment, rows[2].payment))

\* the days of period k: from the disbursement date for the first row, from
\* the date of the previous row otherwise
DaysOfRow(k) ==
    Ordinal(rows[k].date)
    - Ordinal(IF k = 1 THEN args.disbursement_date ELSE rows[k - 1].date)
\* the interest of row k computed on the principal p
InterestOn(p, k) ==
    IF RLe(p, Zero) THEN Zero
    ELSE IF args.base = "BASE_12"
         THEN RDiv(RMul(RMul(p, args.annual_rate), R(args.interest_frequency_months)), R(12))
         ELSE RMul(RMul(p, RDiv(args.annual_rate, R(360))), R(Max(DaysOfRow(k), 0)))

\* C19: in ANNUITY mode the interest of every non-deferred row is computed
\* on the original amount when flat = True (under BASE_12 it is then amount *
\* annual_rate * interest_frequency_months / 12 on every such row) and on the
\* balance remaining before the row when flat = False.
C19_FlatInterest ==
    args.repayment_type = TYPE_ANNUITY =>
        \A k \in 1..Len(rows) :
            rows[k].period > args.deferred_periods =>
                /\ rows[k].interest =
                      InterestOn(IF args.flat THEN args.amount ELSE PrevBalance(k), k)
                /\ (args.flat /\ args.base = "BASE_12") =>
                      rows[k].interest =
                          RDiv(RMul(RMul(args.amount, args.annual_rate),
                                    R(args.interest_frequency_months)), R(12))

\* a flat annuity under BASE_12 whose balance has decreased and whose rows
\* all bear the same positive interest
C19_Witness ==
    /\ Returned
    /\ args.repayment_type = TYPE_ANNUITY
    /\ args.flat
    /\ args.base = "BASE_12"
    /\ Len(rows) >= 3
    /\ RLt(Zero, rows[1].interest)
    /\ RLt(rows[2].balance, args.amount)
    /\ rows[3].interest = rows[1].interest

\* ------------------------------------------------------------------------
\* Properties of _interest_amount (SpecInterest)
\* ------------------------------------------------------------------------
InterestReturned == pc = "done" /\ ia_result # << >>
\* the date the days of the period are counted from
PeriodStart ==
    IF ia_call.period_index = 1 THEN ia_call.disbursement_date ELSE ia_call.prev_date

\* C20: _interest_amount returns 0 when balance <= 0; otherwise, under
\* BASE_12, balance * annual_rate * frequency_months / 12 and, under
\* BASE_360, balance * (annual_rate / 360) * max(days, 0) with the days
\* counted to the current date from the disbursement date for period index 1
\* and from the previous row's date for every later period.
C20_InterestAmount ==
    (InterestReturned /\ PeriodStart # "None") =>
        ia_result =
            IF ia_call.balance[1] <= 0 THEN Zero
            ELSE IF ia_call.base = "BASE_12"
                 THEN RDiv(RMul(RMul(ia_call.balance, ia_call.annual_rate),
                                R(ia_call.frequency_months)), R(12))
                 ELSE RMul(RMul(ia_call.balance, RDiv(ia_call.annual_rate, R(360))),
                           R(Max(Ordinal(ia_call.current_date) - Ordinal(PeriodStart), 0)))

\* BASE_360, second period: 29 days from 2025-01-31 to 2025-03-01 on a
\* balance of 120 at 1200 % a year give 116
C20_Witness ==
    /\ InterestReturned
    /\ ia_call.base = BASE_360
    /\ ia_call.period_index = 2
    /\ ia_call.prev_date # "None"
    /\ ia_call.prev_date = <<2025, 1, 31>>
    /\ ia_call.current_date = <<2025, 3, 1>>
    /\ ia_call.balance = Amount
    /\ ia_call.annual_rate = R(12)
    /\ ia_result = R(116)

\* ------------------------------------------------------------------------
\* Properties of build_schedule (Spec): carry, payment events, principal
\* ------------------------------------------------------------------------
\* a loop iteration of the constant-amortization or annuity generator that
\* appends a non-deferred payment-event row
CarryEventStep ==
    /\ pc = "loop"
    /\ args.repayment_type \in {TYPE_CONSTANT_AMORTIZATION, TYPE_ANNUITY}
    /\ Len(rows') = Len(rows) + 1
    /\ i > args.deferred_periods
    /\ i % payment_step = 0
\* the carry is zero when a generator enters its loop
CarryStartsAtZero == (pc = "loop" /\ i = 1) => carry_interest = Zero

\* C21 as stated: the carry starts at 0 on every invocation and, in
\* CONSTANT_AMORTIZATION and ANNUITY modes, is 0 immediately after any
\* non-deferred payment-event row is processed.
C21_CarryReset ==
    /\ []CarryStartsAtZero
    /\ [][CarryEventStep => carry_interest' = Zero]_vars

\* C21 amended: the carry starts at 0 and is 0 after a non-deferred
\* payment-event row, except in ANNUITY mode when the constant installment
\* is smaller than the interest due (row interest + carry): the carry is
\* then the shortfall, interest due - installment.
C21_CarryResetOrShortfall ==
    /\ []CarryStartsAtZero
    /\ [][CarryEventStep =>
            LET due == RAdd(rows'[Len(rows')].interest, carry_interest)
            IN  carry_interest' =
                    IF args.repayment_type = TYPE_ANNUITY /\ RLt(payment_const, due)
                    THEN RSub(due, payment_const)
                    ELSE Zero]_vars

\* a payment event that collected the interest of the row before it and
\* left the carry at zero
C21_Witness ==
    /\ pc = "loop"
    /\ args.repayment_type = TYPE_CONSTANT_AMORTIZATION
    /\ Len(rows) = 2
    /\ payment_step = 2
    /\ RLt(Zero, rows[1].interest)
    /\ rows[1].payment = Zero
    /\ rows[2].payment = RAdd(RAdd(rows[2].principal, rows[2].interest), rows[1].interest)
    /\ carry_interest = Zero

\* C22: in CONSTANT_AMORTIZATION and ANNUITY modes, when deferred_periods <
\* N_interest, the number of non-deferred payment-event rows the loop
\* produces is the pre-computed N_payments: the closing event is reached and
\* is the last payment event.
C22_PaymentEventCount ==
    (/\ Returned
     /\ args.repayment_type \in {TYPE_CONSTANT_AMORTIZATION, TYPE_ANNUITY}
     /\ args.deferred_periods < Len(rows))
        => (Cardinality(EventRows) = n_payments /\ payment_event_count = n_payments)

\* the principal of the first k rows
PrincipalUpTo(k) == RSum([j \in 1..k |-> rows[j].principal])

\* C23: in every mode, after any prefix of rows the sum of their principal
\* is the amount minus the balance of the last row of the prefix, hence
\* total_principal = amount - final balance <= amount.
C23_PrincipalWithinLoan ==
    /\ \A k \in 1..Len(rows) : PrincipalUpTo(k) = RSub(args.amount, rows[k].balance)
    /\ (Returned /\ Len(rows) > 0) =>
          /\ summary.total_principal = RSub(args.amount, LastRow.balance)
          /\ RLe(summary.total_principal, args.amount)

\* C24: in every mode, once a row has balance = 0, every later row of the
\* schedule has payment = 0, interest = 0 and principal = 0.
C24_NothingAfterClosure ==
    \A j \in 1..Len(rows) : \A k \in (j + 1)..Len(rows) :
        rows[j].balance = Zero =>
            /\ rows[k].payment = Zero
            /\ rows[k].interest = Zero
            /\ rows[k].principal = Zero

\* otherwise valid arguments with a repayment type that has no generator
UnknownTypeCall ==
    /\ ~Malformed(args)
    /\ args.repayment_type \notin {"IN_FINE", "CONSTANT_AMORTIZATION", "ANNUITY"}

\* C25: build_schedule called with otherwise valid inputs and a repayment
\* type that is none of IN_FINE, CONSTANT_AMORTIZATION, ANNUITY returns
\* (empty rows, empty summary), without raising and without running a
\* generator or the effective-rate computation.
C25_UnknownTypeReturnsEmpty ==
    UnknownTypeCall =>
        /\ pc \in {"call", "done"}
        /\ rows = << >>
        /\ i = 0
        /\ cashflows = << >>
        /\ pc = "done" => (outcome = "empty" /\ summary = EmptySummary)

\* the call with repayment type "SPECIFIC" and valid arguments has returned
C25_Witness ==
    /\ UnknownTypeCall
    /\ args.repayment_type = "SPECIFIC"
    /\ pc = "done"
    /\ outcome = "empty"
    /\ rows = << >>
    /\ summary = EmptySummary

====
